---- MODULE Spec2Model ----
(***************************************************************************)
(* The build -> boot -> capture pipeline of the repository:                *)
(*   create_bootimage.py   (the Image Builder, function main)              *)
(*   temp_qemu_capture.py  (the Boot Capture Runner, module body)          *)
(* Each script is a one-shot sequential run.  The external tools (cargo     *)
(* builder, qemu-system-x86_64) and the rest of the machine are black       *)
(* boxes: their exit status, their captured streams, the files they leave   *)
(* behind and the success of a file write are nondeterministic inputs.      *)
(* Text is a sequence of one-character strings, a path a sequence of        *)
(* path components; the builder is taken to be started from the workspace   *)
(* root, the case most favourable to its relative paths.                    *)
(***************************************************************************)
EXTENDS Integers, Sequences, FiniteSets, TLC

VARIABLES
    fs,              \* the artifact paths that exist on disk
    log,             \* serial.log: whether it exists, and its content
    verified,        \* path the builder's last successful run verified, untouched since
    bpc,             \* Image Builder: position in main()
    bexit,           \* Image Builder: process exit status, or NoExit
    bout,            \* Image Builder: what it printed
    bres,            \* Image Builder: result of subprocess.run, or NoRes
    binvoked,        \* Image Builder: subprocess invocations in this run
    bKernelAtCheck,  \* Image Builder: kernel_path.exists() at line 14
    bOutAtPost,      \* Image Builder: output_path.exists() at line 37
    rpc,             \* Boot Capture Runner: position in the script
    rexit,           \* Boot Capture Runner: process exit status, or NoExit
    rout,            \* Boot Capture Runner: what it printed (and the traceback)
    proc,            \* Boot Capture Runner: result of subprocess.run, or NoRes
    rinvoked,        \* Boot Capture Runner: emulator invocations in this run
    rImageAtStart,   \* Boot Capture Runner: did bin_path exist when the run started
    rLogAtStart,     \* Boot Capture Runner: existence and size of serial.log when the run started
    rwrote           \* Boot Capture Runner: outcome of write_text ("none", "ok", "fail")

vars == <<fs, log, verified, bpc, bexit, bout, bres, binvoked, bKernelAtCheck,
          bOutAtPost, rpc, rexit, rout, proc, rinvoked, rImageAtStart,
          rLogAtStart, rwrote>>

bvars == <<bpc, bexit, bout, bres, binvoked, bKernelAtCheck, bOutAtPost>>
rvars == <<rpc, rexit, rout, proc, rinvoked, rImageAtStart, rLogAtStart, rwrote>>

----------------------------------------------------------------------------
(* Bounds of the model *)

MaxOutLen == 1      \* longest captured stdout / stderr text
MaxReturnCode == 2  \* largest subprocess return code drawn

Alphabet == {"B", "\n"}

RECURSIVE TextsUpTo(_)
TextsUpTo(n) ==
    IF n = 0 THEN {<< >>}
    ELSE LET shorter == TextsUpTo(n - 1)
         IN  shorter \cup {Append(t, c) : t \in {s \in shorter : Len(s) = n - 1}, c \in Alphabet}

Texts == TextsUpTo(MaxOutLen)
ReturnCodes == 0..MaxReturnCode

NoFile == [exists |-> FALSE, text |-> << >>]
File(t) == [exists |-> TRUE, text |-> t]
Stat(f) == [exists |-> f.exists, size |-> Len(f.text)]
NoExit == -1
NoRes  == [args |-> << >>, returncode |-> NoExit, stdout |-> << >>, stderr |-> << >>]
NoPath == <<"NoPath">>

----------------------------------------------------------------------------
(* Paths *)

workspace == <<"c:", "Users", "jungamer64", "Desktop", "OS">>

\* pathlib's "/" and the resolution of a relative path against the cwd
Join(dir, rel) == dir \o rel
Parent(p) == SubSeq(p, 1, Len(p) - 1)

kernel_path == Join(workspace, <<"target", "x86_64-blog_os", "debug", "tiny_os">>)
output_path == Join(workspace, <<"target", "x86_64-blog_os", "debug", "tiny_os.efi.img">>)
bin_path    == Join(workspace, <<"target", "x86_64-blog_os", "debug", "bootimage-tiny_os.bin">>)
serial_log  == Join(workspace, <<"serial.log">>)

Paths == {kernel_path, output_path, bin_path}

\* the files the external builder may leave in its --out-dir
OutDirFiles == {p \in Paths : Parent(p) = Parent(output_path) /\ p # kernel_path}

Digits == <<"0", "1", "2", "3", "4", "5", "6", "7", "8", "9">>
Str(n) == <<Digits[n + 1]>>

Line(m, a) == [msg |-> m, arg |-> a]

----------------------------------------------------------------------------
(* The decisions and conversions of the two scripts *)

KernelMissingSkipped(f) == FALSE
\* line 14: if not kernel_path.exists()
KernelMissing(f) == kernel_path \notin f

BuilderCmd == <<"cargo", "builder", "--kernel-binary">> \o kernel_path
              \o <<"--out-dir">> \o Parent(output_path)

CheckIgnored(rc) == FALSE
\* line 28: check=True raises CalledProcessError on a non-zero return code
CalledProcessError(rc) == rc # 0

DiagnosticFromStdout(res) == res.stdout
\* line 34: print(e.stderr)
Diagnostic(res) == res.stderr

OutputAssumed(f) == TRUE
\* line 37: if output_path.exists()
OutputExists(f) == output_path \in f

EmulatorCmd == <<"qemu-system-x86_64", "-drive", "format=raw,file=">> \o bin_path
               \o <<"-serial", "stdio", "-display", "none", "-m", "128M",
                    "-no-reboot", "-no-shutdown">>

Delimiter == <<"\n", "S", "T", "D", "E", "R", "R", ":", "\n">>

FormatLogNoNewline(out, err) == out \o Tail(Delimiter) \o err
\* line 18: proc.stdout + "\nSTDERR:\n" + proc.stderr
FormatLog(out, err) == out \o Delimiter \o err

WriteTextAppend(old, data) == File(old.text \o data)
\* line 18: Path.write_text opens with mode "w": truncate, then write.
\* The content is the text as read_text gives it back; text=True of line 16
\* has already turned every line ending of the captures into "\n".
WriteText(old, data) == File(data)

RunnerExitPropagated(rc) == IF rc = 0 THEN 0 ELSE 1
\* falling off the end of the script after line 18
RunnerExit(rc) == 0

\* a write that fails: the open fails (file untouched) or the write stops
\* after the truncation, leaving a proper prefix of the data
FailedWrites(old, data) ==
    {old} \cup {File(SubSeq(data, 1, k)) : k \in 0..(Len(data) - 1)}

----------------------------------------------------------------------------
Init ==
    /\ fs \in SUBSET Paths
    /\ log = NoFile
    /\ verified = NoPath
    /\ bpc = "idle" /\ bexit = NoExit /\ bout = << >> /\ bres = NoRes
    /\ binvoked = 0 /\ bKernelAtCheck = FALSE /\ bOutAtPost = FALSE
    /\ rpc = "idle" /\ rexit = NoExit /\ rout = << >> /\ proc = NoRes
    /\ rinvoked = 0 /\ rImageAtStart = FALSE /\ rLogAtStart = Stat(NoFile)
    /\ rwrote = "none"

BuilderFresh ==
    /\ bexit' = NoExit /\ bout' = << >> /\ bres' = NoRes
    /\ binvoked' = 0 /\ bKernelAtCheck' = FALSE /\ bOutAtPost' = FALSE

RunnerFresh ==
    /\ rexit' = NoExit /\ rout' = << >> /\ proc' = NoRes
    /\ rinvoked' = 0 /\ rImageAtStart' = FALSE /\ rLogAtStart' = Stat(NoFile)
    /\ rwrote' = "none"

BuilderResting == bpc \in {"idle", "done"}
RunnerResting  == rpc \in {"idle", "done"}

----------------------------------------------------------------------------
(* Image Builder: create_bootimage.py *)

\* the operator starts the script; the previous runner process is gone
BuilderStart ==
    /\ BuilderResting /\ RunnerResting
    /\ bpc' = "check"
    /\ BuilderFresh
    /\ rpc' = "idle" /\ RunnerFresh
    /\ UNCHANGED <<fs, log, verified>>

\* lines 14-18
BuilderPrecheck ==
    /\ bpc = "check"
    /\ bKernelAtCheck' = (kernel_path \in fs)
    /\ IF KernelMissing(fs)
       THEN /\ bout' = Append(bout, Line("Error: Kernel not found at", kernel_path))
            /\ bexit' = 1
            /\ bpc' = "done"
       ELSE /\ bout' = Append(bout, Line("Creating UEFI boot image from", kernel_path))
            /\ bexit' = bexit
            /\ bpc' = "invoke"
    /\ UNCHANGED <<fs, log, verified, bres, binvoked, bOutAtPost, rvars>>

\* lines 27-28, the tool cannot be launched: subprocess.run raises an OSError
\* that the except clause of line 32 does not catch
BuilderLaunchFails ==
    /\ bpc = "invoke"
    /\ bout' = Append(bout, Line("Traceback: OSError", <<"cargo">>))
    /\ bexit' = 1
    /\ bpc' = "done"
    /\ UNCHANGED <<fs, log, verified, bres, binvoked, bKernelAtCheck, bOutAtPost, rvars>>

\* lines 27-35, the tool runs and exits
BuilderInvoke ==
    /\ bpc = "invoke"
    /\ \E rc \in ReturnCodes, out \in Texts, err \in Texts, made \in SUBSET OutDirFiles :
          LET res == [args |-> BuilderCmd, returncode |-> rc, stdout |-> out, stderr |-> err]
          IN  /\ bres' = res
              /\ fs' = fs \cup made
              /\ verified' = IF made = {} THEN verified ELSE NoPath
              /\ IF CalledProcessError(rc)
                 THEN /\ bout' = bout \o <<Line("Error creating boot image:", Str(rc)),
                                           Line("", Diagnostic(res))>>
                      /\ bexit' = 1
                      /\ bpc' = "done"
                 ELSE /\ bout' = bout \o <<Line("", res.stdout)>> \o
                                 (IF res.stderr # << >>
                                  THEN <<Line("Warnings/Info:", res.stderr)>>
                                  ELSE << >>)
                      /\ bexit' = bexit
                      /\ bpc' = "post"
    /\ binvoked' = binvoked + 1
    /\ UNCHANGED <<log, bKernelAtCheck, bOutAtPost, rvars>>

\* lines 37-41
BuilderPostcheck ==
    /\ bpc = "post"
    /\ bOutAtPost' = (output_path \in fs)
    /\ IF OutputExists(fs)
       THEN /\ bout' = Append(bout, Line("Boot image created:", output_path))
            /\ bexit' = 0
            /\ verified' = output_path
       ELSE /\ bout' = Append(bout, Line("Boot image was not created", << >>))
            /\ bexit' = 1
            /\ verified' = verified
    /\ bpc' = "done"
    /\ UNCHANGED <<fs, log, bres, binvoked, bKernelAtCheck, rvars>>

----------------------------------------------------------------------------
(* Boot Capture Runner: temp_qemu_capture.py *)

\* lines 4-15
RunnerStart ==
    /\ BuilderResting /\ RunnerResting
    /\ rpc' = "invoke"
    /\ rexit' = NoExit /\ proc' = NoRes /\ rinvoked' = 0 /\ rwrote' = "none"
    /\ rImageAtStart' = (bin_path \in fs)
    /\ rLogAtStart' = Stat(log)
    /\ rout' = <<Line("Running:", EmulatorCmd)>>
    /\ bpc' = "idle" /\ BuilderFresh
    /\ UNCHANGED <<fs, log, verified>>

\* line 16, the emulator cannot be launched: uncaught OSError
RunnerLaunchFails ==
    /\ rpc = "invoke"
    /\ rout' = Append(rout, Line("Traceback: OSError", <<"qemu-system-x86_64">>))
    /\ rexit' = 1
    /\ rpc' = "done"
    /\ UNCHANGED <<fs, log, verified, bvars, proc, rinvoked, rImageAtStart,
                   rLogAtStart, rwrote>>

\* lines 16-17, the emulator runs and exits
RunnerInvoke ==
    /\ rpc = "invoke"
    /\ \E rc \in ReturnCodes, out \in Texts, err \in Texts :
          /\ proc' = [args |-> EmulatorCmd, returncode |-> rc,
                      stdout |-> out, stderr |-> err]
          /\ rout' = Append(rout, Line("QEMU exited with", Str(rc)))
    /\ rinvoked' = rinvoked + 1
    /\ rpc' = "write"
    /\ UNCHANGED <<fs, log, verified, bvars, rexit, rImageAtStart, rLogAtStart, rwrote>>

\* line 18, the write succeeds and the script ends
RunnerWrite ==
    /\ rpc = "write"
    /\ log' = WriteText(log, FormatLog(proc.stdout, proc.stderr))
    /\ rwrote' = "ok"
    /\ rexit' = RunnerExit(proc.returncode)
    /\ rpc' = "done"
    /\ UNCHANGED <<fs, verified, bvars, rout, proc, rinvoked, rImageAtStart, rLogAtStart>>

\* line 18, the write raises an OSError: uncaught, the traceback names the file
RunnerWriteFails ==
    /\ rpc = "write"
    /\ log' \in FailedWrites(log, FormatLog(proc.stdout, proc.stderr))
    /\ rwrote' = "fail"
    /\ rout' = Append(rout, Line("Traceback: OSError", serial_log))
    /\ rexit' = 1
    /\ rpc' = "done"
    /\ UNCHANGED <<fs, verified, bvars, proc, rinvoked, rImageAtStart, rLogAtStart>>

----------------------------------------------------------------------------
(* The rest of the machine: the kernel build, the operator, other tools *)

EnvCreate ==
    /\ \E p \in Paths \ fs : fs' = fs \cup {p}
    /\ verified' = NoPath
    /\ UNCHANGED <<log, bvars, rvars>>

EnvRemove ==
    /\ \E p \in fs : fs' = fs \ {p}
    /\ verified' = NoPath
    /\ UNCHANGED <<log, bvars, rvars>>

Next ==
    \/ BuilderStart
    \/ BuilderPrecheck
    \/ BuilderLaunchFails
    \/ BuilderInvoke
    \/ BuilderPostcheck
    \/ RunnerStart
    \/ RunnerLaunchFails
    \/ RunnerInvoke
    \/ RunnerWrite
    \/ RunnerWriteFails
    \/ EnvCreate
    \/ EnvRemove

Spec == Init /\ [][Next]_vars

----------------------------------------------------------------------------
(* What a run reported *)

HasLine(con, m) == \E i \in DOMAIN con : con[i].msg = m

\* text occurs in some printed line
Reports(con, text) ==
    \E i \in DOMAIN con :
        \E k \in 0..(Len(con[i].arg) - Len(text)) :
            SubSeq(con[i].arg, k + 1, k + Len(text)) = text

BuilderInRun == bpc \notin {"idle", "check"}
BuilderSuccess == bexit = 0 \/ HasLine(bout, "Boot image created:")

\* <captured stdout> + "\nSTDERR:\n" + <captured stderr>
ExpectedLog == File(proc.stdout \o <<"\n", "S", "T", "D", "E", "R", "R", ":", "\n">> \o proc.stderr)

----------------------------------------------------------------------------
(* C1: when the kernel artifact is absent at the precondition check, the   *)
(* Image Builder run ends with exit status 1 after naming the missing path *)
(* and the builder subprocess is invoked zero times in that run.           *)
C1_MissingKernel ==
    (BuilderInRun /\ ~bKernelAtCheck) =>
        /\ bpc = "done"
        /\ bexit = 1
        /\ binvoked = 0
        /\ bout = <<Line("Error: Kernel not found at", kernel_path)>>

C1_Witness == bpc = "done" /\ ~bKernelAtCheck /\ bexit = 1 /\ binvoked = 0

(* C2: when the builder subprocess returned 0 and the output image is      *)
(* absent at the post-invocation check, the run reports failure (exit      *)
(* status 1, "Boot image was not created") and never reports success.      *)
C2_SilentFailure ==
    (bpc = "done" /\ binvoked = 1 /\ bres.returncode = 0 /\ ~bOutAtPost) =>
        /\ bexit = 1
        /\ bout[Len(bout)] = Line("Boot image was not created", << >>)
        /\ ~HasLine(bout, "Boot image created:")

C2_Witness ==
    bpc = "done" /\ binvoked = 1 /\ bres.returncode = 0 /\ ~bOutAtPost /\ bexit = 1

(* C3: when the builder subprocess returned a non-zero code, the run ends  *)
(* with exit status 1, the diagnostic it prints is the captured standard   *)
(* error, and the post-invocation existence check is never reached.        *)
C3_ToolFailure ==
    (binvoked = 1 /\ bres.returncode # 0) =>
        /\ bpc = "done"
        /\ bexit = 1
        /\ bout = <<Line("Creating UEFI boot image from", kernel_path),
                    Line("Error creating boot image:", Str(bres.returncode)),
                    Line("", bres.stderr)>>
        /\ ~HasLine(bout, "Boot image created:")
        /\ ~HasLine(bout, "Boot image was not created")

C3_Witness ==
    /\ bpc = "done" /\ binvoked = 1 /\ bres.returncode # 0
    /\ bres.stderr # << >> /\ bres.stderr # bres.stdout /\ bexit = 1

(* C4 as stated: in every run in which the emulator was launched and       *)
(* exited, the Capture Log after the run is stdout + "\nSTDERR:\n" +       *)
(* stderr.  Fails when write_text raises.                                  *)
C4_AsStated ==
    (rpc = "done" /\ rinvoked = 1) => log = ExpectedLog

(* C4 amended: in every run in which the emulator was launched and exited  *)
(* and the write of the Capture Log succeeded, the Capture Log after the   *)
(* run is stdout + "\nSTDERR:\n" + stderr exactly, whatever the exit       *)
(* status.                                                                 *)
C4_LogFormat ==
    (rpc = "done" /\ rinvoked = 1 /\ rwrote = "ok") => log = ExpectedLog

C4_Witness ==
    /\ rpc = "done" /\ rinvoked = 1 /\ rwrote = "ok"
    /\ proc.returncode # 0 /\ proc.stdout # << >> /\ proc.stderr # << >>
    /\ log = ExpectedLog

(* C5: when the boot image is absent as the Boot Capture Runner starts,    *)
(* the run ends in failure before the emulator is invoked and writes no    *)
(* Capture Log.  The script has no such check.                             *)
C5_MissingImage ==
    (rpc = "done" /\ ~rImageAtStart) =>
        /\ rexit = 1
        /\ rinvoked = 0
        /\ rwrote = "none"

(* C6: after an Image Builder run that reported success, with the          *)
(* filesystem untouched since, the path a following Boot Capture Runner    *)
(* binds to the emulator is the path the builder verified, and it exists.  *)
(* The two scripts name different files.                                   *)
C6_SameArtifact ==
    (rpc = "invoke" /\ verified # NoPath) =>
        /\ bin_path = verified
        /\ bin_path \in fs

(* C7: when the write of the Capture Log fails, the run ends in failure    *)
(* and what it reports contains the captured stdout and stderr, so that    *)
(* captured output is always in the Capture Log or in the report.  The     *)
(* uncaught OSError names only the file.                                   *)
C7_NoDataLost ==
    /\ (rpc = "done" /\ rwrote = "fail") =>
          /\ rexit = 1
          /\ Reports(rout, proc.stdout)
          /\ Reports(rout, proc.stderr)
    /\ (rpc = "done" /\ rinvoked = 1) =>
          \/ log = ExpectedLog
          \/ Reports(rout, proc.stdout) /\ Reports(rout, proc.stderr)

(* C8: whatever the emulator's exit status, when the emulator was launched *)
(* and the log write does not fail, the run prints that exit status,       *)
(* writes the Capture Log and finishes with exit status 0.                 *)
C8_ExitStatusInformational ==
    (rpc = "done" /\ rinvoked = 1 /\ rwrote # "fail") =>
        /\ rout[Len(rout)] = Line("QEMU exited with", Str(proc.returncode))
        /\ rwrote = "ok"
        /\ log.exists
        /\ rexit = 0

C8_Witness ==
    /\ rpc = "done" /\ rinvoked = 1 /\ rwrote = "ok"
    /\ proc.returncode # 0 /\ rexit = 0 /\ log.exists

(* C9 as stated: after a run that follows an earlier run's log, the log    *)
(* is what a single run with this run's captures would have produced.      *)
(* Fails when the second run's write_text raises before truncating.        *)
C9_AsStated ==
    (rpc = "done" /\ rinvoked = 1 /\ rLogAtStart.exists) =>
        log = WriteText(NoFile, FormatLog(proc.stdout, proc.stderr))

(* C9 amended: when a run starts with a Capture Log left by an earlier run *)
(* and its own write succeeds, the log afterwards is exactly what a single *)
(* run (starting with no log) with this run's captured stdout and stderr   *)
(* produces: nothing of the earlier content remains.                       *)
C9_Overwrite ==
    (rpc = "done" /\ rinvoked = 1 /\ rLogAtStart.exists /\ rwrote = "ok") =>
        /\ log = WriteText(NoFile, FormatLog(proc.stdout, proc.stderr))
        /\ Len(log.text) = Len(proc.stdout) + Len(Delimiter) + Len(proc.stderr)

C9_Witness ==
    /\ rpc = "done" /\ rinvoked = 1 /\ rLogAtStart.exists /\ rwrote = "ok"
    /\ rLogAtStart.size > Len(log.text)
    /\ proc.stdout # << >>
    /\ log = WriteText(NoFile, FormatLog(proc.stdout, proc.stderr))

(* C10: the Image Builder reports success only in a run where the kernel   *)
(* existed at the precondition check, the builder subprocess was invoked   *)
(* exactly once and returned 0, and the output image exists at the check   *)
(* made after it exited.                                                   *)
C10_SuccessOnlyIf ==
    BuilderSuccess =>
        /\ bpc = "done"
        /\ bexit = 0
        /\ bKernelAtCheck
        /\ binvoked = 1
        /\ bres.returncode = 0
        /\ bOutAtPost
        /\ bout[Len(bout)] = Line("Boot image created:", output_path)

C10_Witness ==
    /\ bpc = "done" /\ bexit = 0 /\ HasLine(bout, "Boot image created:")
    /\ bKernelAtCheck /\ binvoked = 1 /\ bres.returncode = 0 /\ bOutAtPost

====
